---------------------------- MODULE Spec2Model ----------------------------
(***************************************************************************)
(* A model of the lettermint SDK: the fluent EmailEndpoint builder         *)
(* (src/endpoints/email.ts) and the LettermintClient transport             *)
(* (src/client.ts) with its error taxonomy (src/utils/errors.ts).          *)
(*                                                                         *)
(* JavaScript values are modelled as follows.                              *)
(*   - an object is a function from its own property names to values; a    *)
(*     property that was never assigned is not in the DOMAIN;              *)
(*   - an array is a sequence;                                             *)
(*   - null / undefined passed or returned as a value is Nil (the empty    *)
(*     sequence) and any other value v is Val(v) (the one-element          *)
(*     sequence), wherever a parameter or result may be absent.            *)
(***************************************************************************)
EXTENDS Naturals, Sequences, FiniteSets, TLC

VARIABLES
    endpoints,   \* heap: EmailEndpoint reference -> the object's fields
    calls,       \* number of builder calls made so far (bounded by MaxCalls)
    lastCall,    \* the builder call that ran last: method, receiver, argument, result
    posted,      \* arguments of the httpClient.post call issued by the last send(), or Nil
    written,     \* history: per endpoint, the last argument given to each setter
    attached,    \* history: per endpoint, the attach(filename, content) calls in order
    client,      \* the LettermintClient object: its fields after construction
    requests,    \* verb calls started on the client: call id -> the call's local state
    chain        \* history: what the calls on lettermint.email since its last send() set

builderVars == <<endpoints, calls, lastCall, posted, written, attached>>
clientVars == <<client, requests>>
vars == <<endpoints, calls, lastCall, posted, written, attached, client, requests, chain>>

---------------------------------------------------------------------------
(* Bounds and input sets                                                   *)

MaxCalls == 4

EndpointIds == {"e1", "e2"}

Emails     == {"a@x.io", "b@x.io"}
EmailLists == {<<"a@x.io", "b@x.io">>, <<"c@x.io">>}
Subjects   == {"s1", "s2"}
Bodies     == {"<p>x</p>", "<p>y</p>"}
Texts      == {"x", "y"}
HeaderMaps == {[h \in {"X-Custom"} |-> "1"], [h \in {"X-Custom", "X-Another"} |-> "2"]}
Routes     == {"r1", "r2"}
Files      == {<<"f1", "c1">>, <<"f2", "c2">>}
Keys       == {"", "k1", "k2"}

---------------------------------------------------------------------------
(* JavaScript values                                                       *)

Nil == <<>>
Val(v) == <<v>>

Has(o, k) == k \in DOMAIN o

\* o.k = v
Put(o, k, v) == [f \in DOMAIN o \cup {k} |-> IF f = k THEN v ELSE o[f]]

\* delete o.k
Remove(o, k) == [f \in DOMAIN o \ {k} |-> o[f]]

\* ToBoolean of a string-or-undefined property: undefined and '' are falsy
TruthyStr(o, k) == Has(o, k) /\ o[k] # ""

---------------------------------------------------------------------------
(* Errors (utils/errors.ts).  An error is an object; `name` is the name of   *)
(* its class, `native` tells whether util.types.isNativeError accepts it.   *)
(* A message built by a template string is the sequence of its parts.      *)

LettermintError(name, message) ==
    [name |-> name, message |-> message, native |-> TRUE]

\* the HttpRequestError constructor, run for an instance of class `name`
HttpRequestErrorOf(name, message, statusCode, responseBody) ==
    Put(Put(LettermintError(name, message), "statusCode", statusCode),
        "responseBody", responseBody)

HttpRequestError(message, statusCode, responseBody) ==
    HttpRequestErrorOf("HttpRequestError", message, statusCode, responseBody)

TimeoutError(message) == LettermintError("TimeoutError", message)

ValidationError(message, errorType, responseBody) ==
    Put(HttpRequestErrorOf("ValidationError", message, 422, responseBody),
        "errorType", errorType)

\* a ClientError that hands its superclass the status of the sibling class
ClientError_422(message, responseBody) ==
    HttpRequestErrorOf("ClientError", message, 422, responseBody)

ClientError(message, responseBody) ==
    HttpRequestErrorOf("ClientError", message, 400, responseBody)

---------------------------------------------------------------------------
(* LettermintClient (client.ts).  A URL or path is the sequence of its      *)
(* tokens: an origin ("https://host"), a separator ("/", "?", "&", "=")     *)
(* or a run of other characters.                                           *)

DefaultBaseUrl == <<"https://api.lettermint.co", "/", "v1">>
DefaultTimeout == 30000

\* the origins a URL of the model can start with
Origins == {"https://api.lettermint.co", "https://custom-api.example.com"}

\* the constructor: config.baseUrl and config.timeout fall back when falsy
LettermintClient(config) ==
    LET apiToken == config.apiToken
    IN  [apiToken |-> apiToken,
         baseUrl  |-> IF Has(config, "baseUrl") /\ config.baseUrl # <<>>
                      THEN config.baseUrl ELSE DefaultBaseUrl,
         timeout  |-> IF Has(config, "timeout") /\ config.timeout # 0
                      THEN config.timeout ELSE DefaultTimeout,
         defaultHeaders |->
             [h \in {"Content-Type", "Accept", "x-lettermint-token", "User-Agent"} |->
                 CASE h = "Content-Type"       -> "application/json"
                   [] h = "Accept"             -> "application/json"
                   [] h = "x-lettermint-token" -> apiToken
                   [] OTHER -> "Lettermint/1.1.0 (Node.js; Node 20.0.0)"]]

\* new URL(relative, base).toString() for a base that ends with "/" and a
\* relative reference without dot segments that does not begin with "//"
ResolveUrl(relative, base) ==
    IF relative = <<>> THEN base
    ELSE IF relative[1] \in Origins THEN relative
    ELSE IF relative[1] = "/" THEN <<base[1]>> \o relative
    ELSE base \o relative

RECURSIVE QueryString(_)
\* the pairs appended to url.searchParams, joined as k=v&k=v
QueryString(pairs) ==
    IF pairs = <<>> THEN <<>>
    ELSE <<pairs[1][1], "=", pairs[1][2]>>
         \o (IF Len(pairs) > 1 THEN <<"&">> \o QueryString(Tail(pairs)) ELSE <<>>)

buildUrl(this, path, params) ==
    LET pathSegment == IF path # <<>> /\ path[1] = "/" THEN Tail(path) ELSE path
        effectiveBaseUrl == IF this.baseUrl[Len(this.baseUrl)] = "/"
                            THEN this.baseUrl ELSE this.baseUrl \o <<"/">>
        url == ResolveUrl(pathSegment, effectiveBaseUrl)
    IN  IF params # Nil /\ params[1] # <<>>
        THEN url \o <<"?">> \o QueryString(params[1])
        ELSE url

\* config?.<field>
ConfigField(config, field) ==
    IF config # Nil /\ Has(config[1], field) THEN Val(config[1][field]) ELSE Nil

\* a merge in which the client's defaults win over the per-call headers
mergeHeaders_defaultsWin(this, config) ==
    LET d == this.defaultHeaders
        o == IF ConfigField(config, "headers") # Nil THEN config[1].headers ELSE <<>>
    IN  [h \in DOMAIN d \cup DOMAIN o |-> IF h \in DOMAIN d THEN d[h] ELSE o[h]]

\* { ...this.defaultHeaders, ...config?.headers }
mergeHeaders(this, config) ==
    LET d == this.defaultHeaders
        o == IF ConfigField(config, "headers") # Nil THEN config[1].headers ELSE <<>>
    IN  [h \in DOMAIN d \cup DOMAIN o |-> IF h \in DOMAIN o THEN o[h] ELSE d[h]]

\* JSON.stringify(value): the text that parses back to value
Stringify(value) == [json |-> value]

\* the arguments of fetchWithTimeout(url, options) of each verb
get(this, path, config) ==
    [url     |-> buildUrl(this, path, ConfigField(config, "params")),
     options |-> [method |-> "GET", headers |-> mergeHeaders(this, config)]]

post(this, path, data, config) ==
    [url     |-> buildUrl(this, path, ConfigField(config, "params")),
     options |-> [method |-> "POST", headers |-> mergeHeaders(this, config),
                  body |-> IF data # Nil THEN Val(Stringify(data[1])) ELSE Nil]]

put(this, path, data, config) ==
    [url     |-> buildUrl(this, path, ConfigField(config, "params")),
     options |-> [method |-> "PUT", headers |-> mergeHeaders(this, config),
                  body |-> IF data # Nil THEN Val(Stringify(data[1])) ELSE Nil]]

delete(this, path, config) ==
    [url     |-> buildUrl(this, path, ConfigField(config, "params")),
     options |-> [method |-> "DELETE", headers |-> mergeHeaders(this, config)]]

\* response.ok
Ok(status) == status >= 200 /\ status <= 299

\* responseBody?.error || fallback
ErrorOr(responseBody, fallback) ==
    IF responseBody # Nil /\ Has(responseBody[1], "error") /\ responseBody[1].error # ""
    THEN responseBody[1].error
    ELSE fallback

\* a status mapping that takes the fallback whatever the body says
statusError_fallback(response, responseBody) ==
    IF response.status = 422
    THEN ValidationError(<<"Validation error: ", "ValidationError">>, "ValidationError",
                         responseBody)
    ELSE IF response.status = 400
    THEN ClientError(<<"Client error: ", ErrorOr(responseBody, "Unknown client error")>>,
                     responseBody)
    ELSE HttpRequestError(<<"HTTP error ", response.status, " ", response.statusText>>,
                          response.status, responseBody)

\* fetchWithTimeout: the error thrown for a response that is not ok
statusError(response, responseBody) ==
    IF response.status = 422
    THEN LET errorType == ErrorOr(responseBody, "ValidationError")
         IN  ValidationError(<<"Validation error: ", errorType>>, errorType, responseBody)
    ELSE IF response.status = 400
    THEN ClientError(<<"Client error: ", ErrorOr(responseBody, "Unknown client error")>>,
                     responseBody)
    ELSE HttpRequestError(<<"HTTP error ", response.status, " ", response.statusText>>,
                          response.status, responseBody)

\* fetchWithTimeout: what the catch block throws for the error it caught
catchError(this, error) ==
    IF error.native /\ error.name = "AbortError"
    THEN TimeoutError(<<"Request timeout after ", this.timeout, "ms">>)
    ELSE error

---------------------------------------------------------------------------
(* EmailEndpoint                                                           *)

\* field initialisers of a new EmailEndpoint
NewEmailEndpoint == [payload |-> [from |-> "", to |-> <<>>, subject |-> ""]]

\* this.payload.<field> = value; return this
SetPayload(heap, this, field, value) ==
    [heap |-> [heap EXCEPT ![this] = Put(@, "payload", Put(@.payload, field, value))],
     ret  |-> Val(this)]

headers(heap, this, hdrs) == SetPayload(heap, this, "headers", hdrs)

idempotencyKey(heap, this, key) ==
    [heap |-> [heap EXCEPT ![this] = Put(@, "idempotencyKeyValue", key)],
     ret  |-> Val(this)]

from(heap, this, email) == SetPayload(heap, this, "from", email)

\* a `to` that adds to the recipients instead of replacing them
to_union(heap, this, emails) ==
    SetPayload(heap, this, "to", heap[this].payload.to \o emails)

to(heap, this, emails) == SetPayload(heap, this, "to", emails)

subject(heap, this, subj) == SetPayload(heap, this, "subject", subj)

\* an `html` that takes null as "clear the field"
html_clears(heap, this, h) ==
    IF h # Nil THEN SetPayload(heap, this, "html", h[1])
               ELSE [heap |-> [heap EXCEPT ![this] = Put(@, "payload", Remove(@.payload, "html"))],
                     ret  |-> Val(this)]

html(heap, this, h) ==
    IF h # Nil THEN SetPayload(heap, this, "html", h[1])
               ELSE [heap |-> heap, ret |-> Val(this)]

\* a `text` whose null branch returns early without the builder
text_void(heap, this, t) ==
    IF t # Nil THEN SetPayload(heap, this, "text", t[1])
               ELSE [heap |-> heap, ret |-> Nil]

text(heap, this, t) ==
    IF t # Nil THEN SetPayload(heap, this, "text", t[1])
               ELSE [heap |-> heap, ret |-> Val(this)]

cc(heap, this, emails) == SetPayload(heap, this, "cc", emails)

bcc(heap, this, emails) == SetPayload(heap, this, "bcc", emails)

replyTo(heap, this, emails) == SetPayload(heap, this, "reply_to", emails)

route(heap, this, r) == SetPayload(heap, this, "route", r)

\* an `attach` that assigns a one-element list instead of pushing
attach_replaces(heap, this, filename, content) ==
    SetPayload(heap, this, "attachments", <<[filename |-> filename, content |-> content]>>)

attach(heap, this, filename, content) ==
    LET p0 == heap[this].payload
        p1 == IF ~Has(p0, "attachments") THEN Put(p0, "attachments", <<>>) ELSE p0
        p2 == Put(p1, "attachments",
                  Append(p1.attachments, [filename |-> filename, content |-> content]))
    IN  [heap |-> [heap EXCEPT ![this] = Put(@, "payload", p2)],
         ret  |-> Val(this)]

\* a send() configuration that tests the key against undefined instead of for truthiness
sendConfig_defined(obj) ==
    IF Has(obj, "idempotencyKeyValue")
    THEN Val([headers |-> [h \in {"Idempotency-Key"} |-> obj.idempotencyKeyValue]])
    ELSE Nil

\* the request configuration send() builds
sendConfig(obj) ==
    IF TruthyStr(obj, "idempotencyKeyValue")
    THEN Val([headers |-> [h \in {"Idempotency-Key"} |-> obj.idempotencyKeyValue]])
    ELSE Nil

\* a send() that refuses locally to post a payload without sender or recipients
send_validated(heap, this) ==
    IF heap[this].payload.from = "" \/ heap[this].payload.to = <<>>
    THEN Nil
    ELSE Val([path |-> "/send", data |-> heap[this].payload,
              config |-> sendConfig(heap[this])])

\* send(): the call this.httpClient.post('/send', this.payload, config) it makes
send(heap, this) ==
    Val([path |-> "/send", data |-> heap[this].payload, config |-> sendConfig(heap[this])])

---------------------------------------------------------------------------
(* History of the calls, kept beside the program state                     *)

NoCall == [op |-> "new", this |-> Nil, arg |-> Nil, ret |-> Nil]

\* no call made yet for the email being composed
NoChain == [written |-> <<>>, attached |-> <<>>]

Note(h, e, setter, arg) == [h EXCEPT ![e] = Put(@, setter, arg)]

---------------------------------------------------------------------------
(* Actions                                                                 *)

\* the state after `new Lettermint(config)`: one EmailEndpoint exists
Init ==
    /\ endpoints = [e \in {"e1"} |-> NewEmailEndpoint]
    /\ calls = 0
    /\ lastCall = NoCall
    /\ posted = Nil
    /\ written = [e \in {"e1"} |-> <<>>]
    /\ attached = [e \in {"e1"} |-> <<>>]
    /\ client = LettermintClient([apiToken |-> "test-api-key"])
    /\ requests = <<>>
    /\ chain = NoChain

\* another `new Lettermint(config)`: its constructor creates a further EmailEndpoint
Construct ==
    \E e \in EndpointIds \ DOMAIN endpoints :
        /\ calls < MaxCalls
        /\ calls' = calls + 1
        /\ endpoints' = Put(endpoints, e, NewEmailEndpoint)
        /\ written' = Put(written, e, <<>>)
        /\ attached' = Put(attached, e, <<>>)
        /\ lastCall' = [op |-> "new", this |-> Nil, arg |-> Nil, ret |-> Val(e)]
        /\ UNCHANGED <<posted, clientVars, chain>>

\* one setter call e.<op>(arg) whose result is r
Setter(e, op, arg, r) ==
    /\ calls < MaxCalls
    /\ calls' = calls + 1
    /\ endpoints' = r.heap
    /\ lastCall' = [op |-> op, this |-> Val(e), arg |-> Val(arg), ret |-> r.ret]
    /\ UNCHANGED <<posted, clientVars, chain>>

CallFrom ==
    \E e \in DOMAIN endpoints, v \in Emails :
        /\ Setter(e, "from", v, from(endpoints, e, v))
        /\ written' = Note(written, e, "from", v)
        /\ UNCHANGED attached

CallTo ==
    \E e \in DOMAIN endpoints, v \in EmailLists :
        /\ Setter(e, "to", v, to(endpoints, e, v))
        /\ written' = Note(written, e, "to", v)
        /\ UNCHANGED attached

CallSubject ==
    \E e \in DOMAIN endpoints, v \in Subjects :
        /\ Setter(e, "subject", v, subject(endpoints, e, v))
        /\ written' = Note(written, e, "subject", v)
        /\ UNCHANGED attached

CallHtml ==
    \E e \in DOMAIN endpoints, v \in {Nil} \cup {Val(b) : b \in Bodies} :
        /\ Setter(e, "html", v, html(endpoints, e, v))
        /\ written' = IF v # Nil THEN Note(written, e, "html", v[1]) ELSE written
        /\ UNCHANGED attached

CallText ==
    \E e \in DOMAIN endpoints, v \in {Nil} \cup {Val(b) : b \in Texts} :
        /\ Setter(e, "text", v, text(endpoints, e, v))
        /\ written' = IF v # Nil THEN Note(written, e, "text", v[1]) ELSE written
        /\ UNCHANGED attached

CallCc ==
    \E e \in DOMAIN endpoints, v \in EmailLists :
        /\ Setter(e, "cc", v, cc(endpoints, e, v))
        /\ written' = Note(written, e, "cc", v)
        /\ UNCHANGED attached

CallBcc ==
    \E e \in DOMAIN endpoints, v \in EmailLists :
        /\ Setter(e, "bcc", v, bcc(endpoints, e, v))
        /\ written' = Note(written, e, "bcc", v)
        /\ UNCHANGED attached

CallReplyTo ==
    \E e \in DOMAIN endpoints, v \in EmailLists :
        /\ Setter(e, "replyTo", v, replyTo(endpoints, e, v))
        /\ written' = Note(written, e, "replyTo", v)
        /\ UNCHANGED attached

CallHeaders ==
    \E e \in DOMAIN endpoints, v \in HeaderMaps :
        /\ Setter(e, "headers", v, headers(endpoints, e, v))
        /\ written' = Note(written, e, "headers", v)
        /\ UNCHANGED attached

CallRoute ==
    \E e \in DOMAIN endpoints, v \in Routes :
        /\ Setter(e, "route", v, route(endpoints, e, v))
        /\ written' = Note(written, e, "route", v)
        /\ UNCHANGED attached

CallIdempotencyKey ==
    \E e \in DOMAIN endpoints, v \in Keys :
        /\ Setter(e, "idempotencyKey", v, idempotencyKey(endpoints, e, v))
        /\ written' = Note(written, e, "idempotencyKey", v)
        /\ UNCHANGED attached

CallAttach ==
    \E e \in DOMAIN endpoints, v \in Files :
        /\ Setter(e, "attach", v, attach(endpoints, e, v[1], v[2]))
        /\ attached' = [attached EXCEPT ![e] = Append(@, v)]
        /\ UNCHANGED written

CallSend ==
    \E e \in DOMAIN endpoints :
        /\ calls < MaxCalls
        /\ calls' = calls + 1
        /\ posted' = send(endpoints, e)
        /\ lastCall' = [op |-> "send", this |-> Val(e), arg |-> Nil, ret |-> Nil]
        /\ UNCHANGED <<endpoints, written, attached, clientVars, chain>>

Next ==
    \/ Construct
    \/ CallFrom \/ CallTo \/ CallSubject \/ CallHtml \/ CallText
    \/ CallCc \/ CallBcc \/ CallReplyTo \/ CallHeaders \/ CallRoute
    \/ CallIdempotencyKey \/ CallAttach \/ CallSend

Spec == Init /\ [][Next]_vars

---------------------------------------------------------------------------
(* Verb calls on the client.  The runtime's fetch and the server are the    *)
(* environment: they choose the response, the failure and the moment.      *)

CallIds == {"c1", "c2"}

ClientConfigs ==
    {[apiToken |-> "test-api-key"],
     [apiToken |-> "custom-key", baseUrl |-> <<"https://custom-api.example.com">>,
      timeout |-> 5000]}

SamplePayload == [from |-> "a@x.io", to |-> <<"c@x.io">>, subject |-> "s1"]

GetCalls ==
    {[path |-> <<"/", "test">>, config |-> Nil],
     [path |-> <<"/", "test">>, config |-> Val([params |-> <<<<"foo", "bar">>>>])],
     [path |-> <<"/", "/", "test">>, config |-> Nil],
     [path |-> <<"https://custom-api.example.com", "/", "test">>, config |-> Nil]}
PostCalls ==
    {[path |-> <<"/", "send">>, data |-> Val(SamplePayload), config |-> Nil],
     [path |-> <<"/", "send">>, data |-> Val(SamplePayload),
      config |-> Val([headers |-> [h \in {"Idempotency-Key"} |-> "k1"]])]}
PutCalls ==
    {[path |-> <<"test">>, data |-> Nil,
      config |-> Val([headers |-> [h \in {"x-lettermint-token"} |-> "other"]])]}
DeleteCalls ==
    {[path |-> <<"/", "test", "/", "1">>, config |-> Nil]}

\* status line of the response: status and reason phrase
StatusLines ==
    {<<200, "OK">>, <<400, "Bad Request">>, <<404, "Not Found">>,
     <<422, "Unprocessable Entity">>}

\* JSON values a body can parse to: null is Nil, an object o is Val(o)
OkBodies == {Val([message_id |-> "m1", status |-> "queued"])}
ErrorBodies ==
    {Nil,
     Val([message |-> "m"]),
     Val([error |-> "", message |-> "m"]),
     Val([error |-> "DailyLimitExceeded", message |-> "m"])}

\* rejections of fetch that are no cancellation: DNS, connection refused, TLS
NetworkErrors ==
    {[name |-> "TypeError", message |-> <<"fetch failed">>, cause |-> cause, native |-> TRUE] :
        cause \in {"ENOTFOUND", "ECONNREFUSED"}}

\* the rejection of a fetch whose signal was aborted: the signal's reason, a
\* DOMException named AbortError.  util.types.isNativeError accepts a
\* DOMException on some Node.js releases and not on others.
AbortReasons ==
    {[name |-> "AbortError", message |-> <<"This operation was aborted">>, native |-> n] :
        n \in BOOLEAN}

\* the rejection of response.json() for a body that is no JSON text
SyntaxError == [name |-> "SyntaxError", message |-> <<"Unexpected token">>, native |-> TRUE]

Rejected(error) == Val([status |-> "rejected", error |-> error])
Resolved(value) == Val([status |-> "resolved", value |-> value])

\* a clearTimeout that leaves the timer scheduled
clearTimeout_forgets(timer) == timer

\* clearTimeout(timeoutId)
clearTimeout(timer) == IF timer = "armed" THEN "cleared" ELSE timer

\* fetchWithTimeout up to its first await: controller, timer, fetch(url, {...options, signal});
\* `fetches` counts the calls of fetch made for this verb call
fetchWithTimeout(fetchArgs) ==
    [url          |-> fetchArgs.url,
     options      |-> fetchArgs.options,
     fetches      |-> 1,
     pc           |-> "fetch",
     timer        |-> "armed",
     aborted      |-> FALSE,
     response     |-> Nil,
     responseBody |-> Nil,
     caught       |-> Nil,
     outcome      |-> Nil]

\* a catch block that issues the request once more before it gives up
Catch_retries(r, error) ==
    IF r.fetches < 2
    THEN [r EXCEPT !.fetches = @ + 1, !.pc = "fetch", !.timer = "armed",
                   !.aborted = FALSE, !.response = Nil, !.responseBody = Nil]
    ELSE [r EXCEPT !.caught = Val(error),
                   !.timer = clearTimeout(@),
                   !.outcome = Rejected(catchError(client, error)),
                   !.pc = "done"]

\* the catch block of fetchWithTimeout, entered with `error`
Catch(r, error) ==
    [r EXCEPT !.caught = Val(error),
              !.timer = clearTimeout(@),
              !.outcome = Rejected(catchError(client, error)),
              !.pc = "done"]

InitClient ==
    /\ endpoints = [e \in {"e1"} |-> NewEmailEndpoint]
    /\ calls = 0
    /\ lastCall = NoCall
    /\ posted = Nil
    /\ written = [e \in {"e1"} |-> <<>>]
    /\ attached = [e \in {"e1"} |-> <<>>]
    /\ client \in {LettermintClient(c) : c \in ClientConfigs}
    /\ requests = <<>>
    /\ chain = NoChain

\* a verb call begins; `call` keeps the verb and the arguments as they were passed
Start(c, call, fetchArgs) ==
    /\ requests' = Put(requests, c, Put(fetchWithTimeout(fetchArgs), "call", call))
    /\ UNCHANGED <<builderVars, client, chain>>

CallGet ==
    \E c \in CallIds \ DOMAIN requests, a \in GetCalls :
        Start(c, Put(a, "verb", "get"), get(client, a.path, a.config))

CallPost ==
    \E c \in CallIds \ DOMAIN requests, a \in PostCalls :
        Start(c, Put(a, "verb", "post"), post(client, a.path, a.data, a.config))

CallPut ==
    \E c \in CallIds \ DOMAIN requests, a \in PutCalls :
        Start(c, Put(a, "verb", "put"), put(client, a.path, a.data, a.config))

CallDelete ==
    \E c \in CallIds \ DOMAIN requests, a \in DeleteCalls :
        Start(c, Put(a, "verb", "delete"), delete(client, a.path, a.config))

\* a timer callback that aborts one controller shared by all the calls
TimerFires_sharedController ==
    \E c \in DOMAIN requests :
        /\ requests[c].timer = "armed"
        /\ requests' = [d \in DOMAIN requests |->
              IF d = c THEN [requests[d] EXCEPT !.timer = "fired", !.aborted = TRUE]
                       ELSE [requests[d] EXCEPT !.aborted = TRUE]]
        /\ UNCHANGED <<builderVars, client, chain>>

\* the timer callback: controller.abort()
TimerFires ==
    \E c \in DOMAIN requests :
        /\ requests[c].timer = "armed"
        /\ requests' = [requests EXCEPT ![c].timer = "fired", ![c].aborted = TRUE]
        /\ UNCHANGED <<builderVars, client, chain>>

\* fetch resolves with a response: clearTimeout, then the test of response.ok
FetchResolves ==
    \E c \in DOMAIN requests, line \in StatusLines :
        /\ requests[c].pc = "fetch"
        /\ ~requests[c].aborted
        /\ requests' = [requests EXCEPT
              ![c].response = Val([status |-> line[1], statusText |-> line[2],
                                   ok |-> Ok(line[1])]),
              ![c].timer = clearTimeout(@),
              ![c].pc = IF Ok(line[1]) THEN "okBody" ELSE "errorBody"]
        /\ UNCHANGED <<builderVars, client, chain>>

\* fetch rejects: with the abort reason once the signal is aborted, with a
\* network failure otherwise
FetchRejects ==
    \E c \in DOMAIN requests :
        /\ requests[c].pc = "fetch"
        /\ \E error \in (IF requests[c].aborted THEN AbortReasons ELSE NetworkErrors) :
              requests' = [requests EXCEPT ![c] = Catch(@, error)]
        /\ UNCHANGED <<builderVars, client, chain>>

\* response.json() of a response that is not ok resolves: the status is mapped
ErrorBodyParsed ==
    \E c \in DOMAIN requests, b \in ErrorBodies :
        /\ requests[c].pc = "errorBody"
        /\ requests' = [requests EXCEPT ![c] =
              Catch([@ EXCEPT !.responseBody = Val(b)], statusError(@.response[1], b))]
        /\ UNCHANGED <<builderVars, client, chain>>

\* an error path that maps the status although the body did not parse
ErrorBodyUnparseable_mapped ==
    \E c \in DOMAIN requests :
        /\ requests[c].pc = "errorBody"
        /\ requests' = [requests EXCEPT ![c] = Catch(@, statusError(@.response[1], Nil))]
        /\ UNCHANGED <<builderVars, client, chain>>

\* response.json() of a response that is not ok rejects
ErrorBodyUnparseable ==
    \E c \in DOMAIN requests :
        /\ requests[c].pc = "errorBody"
        /\ requests' = [requests EXCEPT ![c] = Catch(@, SyntaxError)]
        /\ UNCHANGED <<builderVars, client, chain>>

\* the verb's `return response.json()` resolves
OkBodyParsed ==
    \E c \in DOMAIN requests, b \in OkBodies :
        /\ requests[c].pc = "okBody"
        /\ requests' = [requests EXCEPT ![c].responseBody = Val(b),
                                        ![c].outcome = Resolved(b),
                                        ![c].pc = "done"]
        /\ UNCHANGED <<builderVars, client, chain>>

\* the verb's `return response.json()` rejects
OkBodyUnparseable ==
    \E c \in DOMAIN requests :
        /\ requests[c].pc = "okBody"
        /\ requests' = [requests EXCEPT ![c].outcome = Rejected(SyntaxError),
                                        ![c].pc = "done"]
        /\ UNCHANGED <<builderVars, client, chain>>

NextClient ==
    \/ CallGet \/ CallPost \/ CallPut \/ CallDelete
    \/ TimerFires \/ FetchResolves \/ FetchRejects
    \/ ErrorBodyParsed \/ ErrorBodyUnparseable
    \/ OkBodyParsed \/ OkBodyUnparseable

SpecClient == InitClient /\ [][NextClient]_vars

\* the runtime rejects the fetch of a call whose signal has been aborted
AbortDelivered ==
    /\ FetchRejects
    /\ \E c \in DOMAIN requests :
          requests[c].aborted /\ requests[c].pc = "fetch" /\ requests'[c].pc = "done"

\* the event loop runs a timer that is due, and an aborted fetch rejects; the
\* server is free never to send the response or the rest of a body
SpecClientLive ==
    SpecClient /\ WF_vars(TimerFires) /\ WF_vars(AbortDelivered)

---------------------------------------------------------------------------
(* Emails composed on `lettermint.email`, the one EmailEndpoint that the    *)
(* Lettermint constructor creates, and sent through its client.  The       *)
(* setters that run here stand for their families: `to` for the required   *)
(* fields, `cc` for the optional fields assigned by a setter, attach for   *)
(* the attachments and idempotencyKey for the request configuration.       *)

\* the builder behind lettermint.email
email == "e1"

\* the path literal of send() as the tokens buildUrl works on
PathTokens(path) == IF path = "/send" THEN <<"/", "send">> ELSE <<path>>

\* one setter call on lettermint.email whose result is r
EmailSetter(r) ==
    /\ calls < MaxCalls
    /\ calls' = calls + 1
    /\ endpoints' = r.heap
    /\ UNCHANGED <<lastCall, posted, written, attached, clientVars>>

EmailTo ==
    \E v \in EmailLists :
        /\ EmailSetter(to(endpoints, email, v))
        /\ chain' = [chain EXCEPT !.written = Put(@, "to", v)]

EmailCc ==
    \E v \in EmailLists :
        /\ EmailSetter(cc(endpoints, email, v))
        /\ chain' = [chain EXCEPT !.written = Put(@, "cc", v)]

EmailIdempotencyKey ==
    \E v \in Keys :
        /\ EmailSetter(idempotencyKey(endpoints, email, v))
        /\ chain' = [chain EXCEPT !.written = Put(@, "idempotencyKey", v)]

\* an attach that also rewrites the body of the requests already under way,
\* as if they held the payload object and not its JSON text
EmailAttach_aliased ==
    \E v \in Files :
        LET r == attach(endpoints, email, v[1], v[2])
        IN  /\ calls < MaxCalls
            /\ calls' = calls + 1
            /\ endpoints' = r.heap
            /\ chain' = [chain EXCEPT !.attached = Append(@, v)]
            /\ requests' = [c \in DOMAIN requests |->
                  IF requests[c].pc = "fetch"
                  THEN [requests[c] EXCEPT
                          !.options.body = Val(Stringify(r.heap[email].payload))]
                  ELSE requests[c]]
            /\ UNCHANGED <<lastCall, posted, written, attached, client>>

EmailAttach ==
    \E v \in Files :
        /\ EmailSetter(attach(endpoints, email, v[1], v[2]))
        /\ chain' = [chain EXCEPT !.attached = Append(@, v)]

\* a send() that puts the builder back to its initial fields
EmailSend_resets ==
    \E c \in CallIds \ DOMAIN requests :
        LET args == send(endpoints, email)[1]
            call == [verb |-> "post", path |-> PathTokens(args.path),
                     data |-> Val(args.data), config |-> args.config,
                     builder |-> endpoints[email], chain |-> chain, seq |-> calls,
                     underway |-> {d \in DOMAIN requests : requests[d].pc # "done"}]
        IN  /\ calls < MaxCalls
            /\ calls' = calls + 1
            /\ requests' = Put(requests, c,
                  Put(fetchWithTimeout(post(client, call.path, call.data, call.config)),
                      "call", call))
            /\ chain' = NoChain
            /\ endpoints' = [endpoints EXCEPT ![email] = NewEmailEndpoint]
            /\ UNCHANGED <<lastCall, posted, written, attached, client>>

\* lettermint.email.send(): post('/send', this.payload, config) and, inside
\* it, fetchWithTimeout up to its first await.  `call` keeps the arguments,
\* the builder, the history and the sends still under way as they were when
\* send() was invoked.
EmailSend ==
    \E c \in CallIds \ DOMAIN requests :
        LET args == send(endpoints, email)[1]
            call == [verb |-> "post", path |-> PathTokens(args.path),
                     data |-> Val(args.data), config |-> args.config,
                     builder |-> endpoints[email], chain |-> chain, seq |-> calls,
                     underway |-> {d \in DOMAIN requests : requests[d].pc # "done"}]
        IN  /\ calls < MaxCalls
            /\ calls' = calls + 1
            /\ requests' = Put(requests, c,
                  Put(fetchWithTimeout(post(client, call.path, call.data, call.config)),
                      "call", call))
            /\ chain' = NoChain
            /\ UNCHANGED <<endpoints, lastCall, posted, written, attached, client>>

\* of the transport, the steps that decide whether a send succeeds or fails
NextSend ==
    \/ EmailTo \/ EmailCc \/ EmailIdempotencyKey \/ EmailAttach \/ EmailSend
    \/ FetchResolves \/ FetchRejects \/ OkBodyParsed

SpecSend == Init /\ [][NextSend]_vars

---------------------------------------------------------------------------
(* The builder's contract                                                  *)

SetterOps == {"from", "to", "subject", "html", "text", "cc", "bcc", "replyTo",
              "headers", "route", "attach", "idempotencyKey"}

\* setters of the optional payload fields
OptionalSetters == {"html", "text", "cc", "bcc", "replyTo", "headers", "route"}

\* the payload key a setter is documented to fill
KeyOf(setter) == IF setter = "replyTo" THEN "reply_to" ELSE setter

\* the last argument given to `setter`, or `initial` when it was never called
LastOr(w, setter, initial) == IF Has(w, setter) THEN w[setter] ELSE initial

Descriptors(pairs) ==
    [i \in 1..Len(pairs) |-> [filename |-> pairs[i][1], content |-> pairs[i][2]]]

\* the object literal a caller would write for the calls made on endpoint e
Literal(e) ==
    LET w    == written[e]
        keys == {"from", "to", "subject"}
                  \cup {KeyOf(s) : s \in {t \in OptionalSetters : Has(w, t)}}
                  \cup (IF attached[e] # <<>> THEN {"attachments"} ELSE {})
        setterOf(k) == IF k = "reply_to" THEN "replyTo" ELSE k
    IN  [k \in keys |->
            CASE k = "from"        -> LastOr(w, "from", "")
              [] k = "to"          -> LastOr(w, "to", <<>>)
              [] k = "subject"     -> LastOr(w, "subject", "")
              [] k = "attachments" -> Descriptors(attached[e])
              [] OTHER             -> w[setterOf(k)]]

JustSent == lastCall.op = "send"
Sender == lastCall.this[1]

\* C1: the payload send() hands to POST holds, for from, to, subject, html,
\* text, cc, bcc, replyTo, headers and route, exactly the argument of the last
\* (non-null, for html/text) call of that setter, and the initial value ('' ,
\* [], '', or no such key) when the setter was never called.
C1_LastCallWins ==
    JustSent =>
        /\ posted # Nil
        /\ LET d == posted[1].data
               w == written[Sender]
           IN  /\ d.from = LastOr(w, "from", "")
               /\ d.to = LastOr(w, "to", <<>>)
               /\ d.subject = LastOr(w, "subject", "")
               /\ \A s \in OptionalSetters :
                     /\ Has(d, KeyOf(s)) <=> Has(w, s)
                     /\ Has(w, s) => d[KeyOf(s)] = w[s]

\* to('a','b') then to('c') has been sent, and the body's to is ['c']
C1_Witness ==
    /\ JustSent
    /\ posted # Nil
    /\ posted[1].data.to = <<"c@x.io">>
    /\ Has(posted[1].data, "cc")
    /\ calls >= 4

\* C2: the attachments of every builder, and of every payload sent, are the
\* {filename, content} pairs of the attach calls made on that builder, in call
\* order; the key is absent when attach was never called.
C2_AttachAppends ==
    /\ \A e \in DOMAIN endpoints :
          LET p == endpoints[e].payload
          IN  IF attached[e] = <<>>
              THEN ~Has(p, "attachments")
              ELSE Has(p, "attachments") /\ p.attachments = Descriptors(attached[e])
    /\ JustSent /\ posted # Nil =>
          LET d == posted[1].data
          IN  IF attached[Sender] = <<>>
              THEN ~Has(d, "attachments")
              ELSE Has(d, "attachments") /\ d.attachments = Descriptors(attached[Sender])

\* attach('f2','c2'), attach('f1','c1'), another setter, then send()
C2_Witness ==
    /\ JustSent
    /\ posted # Nil
    /\ Has(posted[1].data, "attachments")
    /\ posted[1].data.attachments =
          <<[filename |-> "f2", content |-> "c2"], [filename |-> "f1", content |-> "c1"]>>
    /\ written[Sender] # <<>>

NullCall(c) == c.op \in {"html", "text"} /\ c.arg = Val(Nil)

\* C3: html(null) and text(null) change nothing in any builder, and no call
\* takes away an html or text value that a builder holds: after every call
\* the field still holds a string.
C3_NullIsNoOp ==
    [][/\ NullCall(lastCall') => endpoints' = endpoints
       /\ \A e \in DOMAIN endpoints : \A f \in {"html", "text"} :
             Has(endpoints[e].payload, f) =>
                 /\ Has(endpoints'[e].payload, f)
                 /\ endpoints'[e].payload[f] \in Bodies \cup Texts]_vars

\* html('<p>x</p>') then html(null): the value is still there
C3_Witness ==
    /\ lastCall.op = "html"
    /\ lastCall.arg = Val(Nil)
    /\ Has(endpoints[Sender].payload, "html")
    /\ endpoints[Sender].payload.html = "<p>x</p>"

IdempotencyHeader(k) == Val([headers |-> [h \in {"Idempotency-Key"} |-> k]])

\* the headers of the request that the posted call makes the client issue
PostedHeaders ==
    post(client, <<"/", "send">>, Val(posted[1].data), posted[1].config).options.headers

\* C4 as stated: for every string k, send() after idempotencyKey(k) passes the
\* configuration {headers: {'Idempotency-Key': k}}, and passes none when
\* idempotencyKey was never called.
C4_EveryKeyIsSent ==
    JustSent /\ posted # Nil =>
        LET w == written[Sender]
            h == PostedHeaders
        IN  IF Has(w, "idempotencyKey")
            THEN /\ posted[1].config = IdempotencyHeader(w.idempotencyKey)
                 /\ Has(h, "Idempotency-Key")
                 /\ h["Idempotency-Key"] = w.idempotencyKey
            ELSE /\ posted[1].config = Nil
                 /\ ~Has(h, "Idempotency-Key")

\* C4 as amended: for every non-empty string k, send() after idempotencyKey(k)
\* passes the configuration {headers: {'Idempotency-Key': k}}; when
\* idempotencyKey was never called, or the last key set is the empty string,
\* send() passes no configuration.
C4_NonEmptyKeyIsSent ==
    JustSent /\ posted # Nil =>
        LET w == written[Sender]
            h == PostedHeaders
        IN  IF Has(w, "idempotencyKey") /\ w.idempotencyKey # ""
            THEN /\ posted[1].config = IdempotencyHeader(w.idempotencyKey)
                 /\ Has(h, "Idempotency-Key")
                 /\ h["Idempotency-Key"] = w.idempotencyKey
            ELSE /\ posted[1].config = Nil
                 /\ ~Has(h, "Idempotency-Key")

\* idempotencyKey('k1'), idempotencyKey('k2'), send()
C4_Witness ==
    /\ JustSent
    /\ posted # Nil
    /\ posted[1].config = IdempotencyHeader("k2")
    /\ PostedHeaders["Idempotency-Key"] = "k2"
    /\ calls >= 3

\* C5: send() always makes the call post('/send', payload, config), also
\* while from, to and subject are still empty, and its payload is equal to the
\* object literal of the values set: same keys (replyTo under reply_to), same
\* values.
C5_BuilderEqualsLiteral ==
    JustSent =>
        /\ posted # Nil
        /\ posted[1].path = "/send"
        /\ DOMAIN posted[1].data = DOMAIN Literal(Sender)
        /\ posted[1].data = Literal(Sender)

\* send() on a builder whose from, to and subject were never set
C5_Witness ==
    /\ JustSent
    /\ posted # Nil
    /\ posted[1].data.from = ""
    /\ posted[1].data.to = <<>>
    /\ posted[1].data.subject = ""
    /\ Has(posted[1].data, "reply_to")

\* C6: every setter call returns the reference of the builder it was called
\* on, html(null) and text(null) included.
C6_SetterReturnsThis ==
    lastCall.op \in SetterOps =>
        /\ lastCall.ret # Nil
        /\ lastCall.ret = lastCall.this
        /\ lastCall.ret[1] \in DOMAIN endpoints

\* text(null) on the second of two builders returns that second builder
C6_Witness ==
    /\ lastCall.op = "text"
    /\ lastCall.arg = Val(Nil)
    /\ lastCall.this = Val("e2")
    /\ lastCall.ret = Val("e2")

---------------------------------------------------------------------------
(* The transport's error mapping                                           *)

Done(c) == c \in DOMAIN requests /\ requests[c].pc = "done"

\* the call got a response that is not ok, whose body parsed
MappedCalls ==
    {c \in DOMAIN requests :
        /\ requests[c].pc = "done"
        /\ requests[c].response # Nil
        /\ ~requests[c].response[1].ok
        /\ requests[c].responseBody # Nil}

StatusOf(c) == requests[c].response[1].status
BodyOf(c) == requests[c].responseBody[1]
IsRejected(c) == requests[c].outcome # Nil /\ requests[c].outcome[1].status = "rejected"
ErrorOf(c) == requests[c].outcome[1].error

HasErrorField(b) == b # Nil /\ Has(b[1], "error")

\* C7 as stated: a 422 response with parsed body b rejects the call with a
\* ValidationError of statusCode 422 and responseBody b whose errorType is
\* b.error, and 'ValidationError' when b has no error field.
C7_ErrorTypeIsErrorField ==
    \A c \in MappedCalls :
        StatusOf(c) = 422 =>
            /\ IsRejected(c)
            /\ ErrorOf(c).name = "ValidationError"
            /\ ErrorOf(c).statusCode = 422
            /\ ErrorOf(c).responseBody = BodyOf(c)
            /\ ErrorOf(c).errorType =
                  (IF HasErrorField(BodyOf(c)) THEN BodyOf(c)[1].error ELSE "ValidationError")

\* C7 as amended: a 422 response with parsed body b rejects the call with a
\* ValidationError of statusCode 422 and responseBody b whose errorType is
\* b.error when that is a non-empty string, and 'ValidationError' when b has
\* no error field or an empty one.
C7_ErrorTypeIsTruthyErrorField ==
    \A c \in MappedCalls :
        StatusOf(c) = 422 =>
            /\ IsRejected(c)
            /\ ErrorOf(c).name = "ValidationError"
            /\ ErrorOf(c).statusCode = 422
            /\ ErrorOf(c).responseBody = BodyOf(c)
            /\ ErrorOf(c).errorType =
                  (IF HasErrorField(BodyOf(c)) /\ BodyOf(c)[1].error # ""
                   THEN BodyOf(c)[1].error
                   ELSE "ValidationError")

\* a POST answered 422 {error: 'DailyLimitExceeded', message: ...}
C7_Witness ==
    \E c \in MappedCalls :
        /\ requests[c].options.method = "POST"
        /\ StatusOf(c) = 422
        /\ BodyOf(c) = Val([error |-> "DailyLimitExceeded", message |-> "m"])
        /\ ErrorOf(c).errorType = "DailyLimitExceeded"

\* C8: a response that is not ok, with parsed body b and a status other than
\* 422, rejects the call with a ClientError (statusCode 400, responseBody b,
\* message from b.error or 'Unknown client error') when the status is 400, and
\* otherwise with a plain HttpRequestError of that status, the message 'HTTP
\* error <status> <reason phrase>' and responseBody b; so the class of an
\* error fixes its status.
C8_StatusFixesErrorClass ==
    /\ \A c \in MappedCalls :
          StatusOf(c) # 422 =>
              /\ IsRejected(c)
              /\ ErrorOf(c).responseBody = BodyOf(c)
              /\ ErrorOf(c).statusCode = StatusOf(c)
              /\ IF StatusOf(c) = 400
                 THEN /\ ErrorOf(c).name = "ClientError"
                      /\ ErrorOf(c).message =
                            <<"Client error: ",
                              IF HasErrorField(BodyOf(c)) /\ BodyOf(c)[1].error # ""
                              THEN BodyOf(c)[1].error
                              ELSE "Unknown client error">>
                 ELSE /\ ErrorOf(c).name = "HttpRequestError"
                      /\ ErrorOf(c).message =
                            <<"HTTP error ", StatusOf(c), " ",
                              requests[c].response[1].statusText>>
    /\ \A c \in DOMAIN requests :
          IsRejected(c) /\ Has(ErrorOf(c), "statusCode") =>
              /\ ErrorOf(c).name = "ValidationError" => ErrorOf(c).statusCode = 422
              /\ ErrorOf(c).name = "ClientError" => ErrorOf(c).statusCode = 400
              /\ ErrorOf(c).name = "HttpRequestError" => ErrorOf(c).statusCode \notin {400, 422}

\* one call answered 400 and another answered 404, both with a parsed body
C8_Witness ==
    \E c, d \in MappedCalls :
        /\ StatusOf(c) = 400
        /\ ErrorOf(c).name = "ClientError"
        /\ BodyOf(c) = Val([error |-> "DailyLimitExceeded", message |-> "m"])
        /\ StatusOf(d) = 404
        /\ ErrorOf(d).name = "HttpRequestError"
        /\ ErrorOf(d).message = <<"HTTP error ", 404, " ", "Not Found">>

\* C9: a call whose timer fired, no response having arrived, has its request
\* aborted and ends rejected with a TimeoutError whose message is 'Request
\* timeout after <timeout>ms' for the client's timeout.
C9_TimeoutRejectsWithTimeoutError ==
    \A c \in DOMAIN requests :
        requests[c].timer = "fired" =>
            /\ requests[c].aborted
            /\ requests[c].pc = "done" =>
                  /\ IsRejected(c)
                  /\ ErrorOf(c).name = "TimeoutError"
                  /\ ErrorOf(c).message = <<"Request timeout after ", client.timeout, "ms">>

\* C10: the rejection of a call that ended in the catch block is a
\* TimeoutError exactly when the error caught was an abort error, and is the
\* very error caught otherwise.
C10_OnlyAbortBecomesTimeout ==
    \A c \in DOMAIN requests :
        Done(c) /\ requests[c].caught # Nil =>
            LET error == requests[c].caught[1]
            IN  /\ IsRejected(c)
                /\ error.name = "AbortError" <=> ErrorOf(c).name = "TimeoutError"
                /\ error.name # "AbortError" => ErrorOf(c) = error

---------------------------------------------------------------------------
(* The transport's requests                                                *)

\* the per-call headers of a verb call: config?.headers, none when absent
OwnHeaders(call) ==
    IF call.config # Nil /\ Has(call.config[1], "headers") THEN call.config[1].headers ELSE <<>>

\* the query parameters of a verb call, as pairs in the order supplied
OwnParams(call) ==
    IF call.config # Nil /\ Has(call.config[1], "params") THEN call.config[1].params ELSE <<>>

\* the header set a client configured with `token` is documented to send
DocumentedDefaults(token) ==
    [h \in {"Content-Type", "Accept", "x-lettermint-token", "User-Agent"} |->
        CASE h = "Content-Type"       -> "application/json"
          [] h = "Accept"             -> "application/json"
          [] h = "x-lettermint-token" -> token
          [] OTHER -> "Lettermint/1.1.0 (Node.js; Node 20.0.0)"]

\* C11: the client's default headers stay what the constructor computed, and
\* the headers of every request are those defaults with the per-call headers
\* on top: a per-call header has its per-call value, a default header not
\* named per call has its construction-time value, so a request whose
\* per-call headers do not name x-lettermint-token carries the configured token.
C11_HeadersMerged ==
    /\ client.defaultHeaders = DocumentedDefaults(client.apiToken)
    /\ \A c \in DOMAIN requests :
          LET h   == requests[c].options.headers
              own == OwnHeaders(requests[c].call)
              d   == DocumentedDefaults(client.apiToken)
          IN  /\ DOMAIN h = DOMAIN d \cup DOMAIN own
              /\ \A k \in DOMAIN own : h[k] = own[k]
              /\ \A k \in DOMAIN d \ DOMAIN own : h[k] = d[k]
              /\ "x-lettermint-token" \notin DOMAIN own =>
                    h["x-lettermint-token"] = client.apiToken

\* a PUT whose per-call headers replace the token, beside a POST that adds an
\* Idempotency-Key and keeps the configured token
C11_Witness ==
    \E c, d \in DOMAIN requests :
        /\ requests[c].call.verb = "put"
        /\ requests[c].options.headers["x-lettermint-token"] = "other"
        /\ requests[c].options.headers["Accept"] = "application/json"
        /\ requests[d].call.verb = "post"
        /\ Has(requests[d].options.headers, "Idempotency-Key")
        /\ requests[d].options.headers["Idempotency-Key"] = "k1"
        /\ requests[d].options.headers["x-lettermint-token"] = "custom-key"

\* the base URL made to end with a separator
NormalizedBase(base) == IF base[Len(base)] = "/" THEN base ELSE base \o <<"/">>

\* the path without its leading separator
StrippedPath(path) == IF path # <<>> /\ path[1] = "/" THEN Tail(path) ELSE path

IsPrefix(s, t) == Len(s) <= Len(t) /\ SubSeq(t, 1, Len(s)) = s

\* C12: the URL of every request is the client's base URL made to end with
\* a separator, then the path without its leading separator, then "?" and
\* the query parameters as key=value pairs in the order supplied; so it
\* begins with the client's base URL.
C12_UrlIsBaseJoinedWithPath ==
    \A c \in DOMAIN requests :
        LET call   == requests[c].call
            joined == NormalizedBase(client.baseUrl) \o StrippedPath(call.path)
        IN  /\ requests[c].url =
                  (IF OwnParams(call) # <<>>
                   THEN joined \o <<"?">> \o QueryString(OwnParams(call))
                   ELSE joined)
            /\ IsPrefix(NormalizedBase(client.baseUrl), requests[c].url)

\* C13: every verb call makes exactly one call of fetch, whatever its
\* outcome: the count is one from the start of the call on and never grows,
\* the request stays the one first issued, and a call that has settled,
\* failed or not, never runs again.
C13_OneRequestPerCall ==
    /\ [](\A c \in DOMAIN requests : requests[c].fetches = 1)
    /\ [][\A c \in DOMAIN requests :
             /\ c \in DOMAIN requests'
             /\ requests'[c].fetches = requests[c].fetches
             /\ requests'[c].url = requests[c].url
             /\ requests'[c].options = requests[c].options
             /\ Done(c) => requests'[c] = requests[c]]_vars

\* a call that timed out beside a POST to /send answered 422: one fetch each
C13_Witness ==
    \E c, d \in DOMAIN requests :
        /\ Done(c) /\ IsRejected(c)
        /\ requests[c].timer = "fired"
        /\ requests[c].fetches = 1
        /\ Done(d) /\ IsRejected(d)
        /\ requests[d].call.verb = "post"
        /\ requests[d].response # Nil
        /\ StatusOf(d) = 422
        /\ requests[d].fetches = 1

\* C15: a verb call that has settled, on whatever path, has no timer
\* pending: its timer has been cleared or has fired.
C15_NoTimerOutlivesItsCall ==
    \A c \in DOMAIN requests :
        Done(c) => requests[c].timer \in {"cleared", "fired"}

\* a call that failed before any response (timer cleared by the catch block)
\* beside a call that succeeded (timer cleared when the response arrived)
C15_Witness ==
    \E c, d \in DOMAIN requests :
        /\ Done(c) /\ IsRejected(c)
        /\ requests[c].response = Nil
        /\ ErrorOf(c).name = "TypeError"
        /\ requests[c].timer = "cleared"
        /\ Done(d) /\ ~IsRejected(d)
        /\ requests[d].timer = "cleared"

\* C16: a call is aborted only by its own timer; a step of one call (its
\* start, its timer, its response, its settling) leaves every other call as
\* it was, and no step changes the client's fields.
C16_CallsDoNotInterfere ==
    /\ [](\A c \in DOMAIN requests :
             requests[c].aborted <=> requests[c].timer = "fired")
    /\ [][/\ client' = client
           /\ \A c \in DOMAIN requests :
                 /\ c \in DOMAIN requests'
                 /\ requests'[c] # requests[c] =>
                       \A d \in DOMAIN requests \ {c} : requests'[d] = requests[d]]_vars

\* one call timed out while the other, started before the timer fired,
\* went on to resolve with its body
C16_Witness ==
    \E c, d \in DOMAIN requests :
        /\ requests[c].timer = "fired"
        /\ Done(c) /\ IsRejected(c)
        /\ Done(d) /\ ~IsRejected(d)
        /\ ~requests[d].aborted
        /\ client.timeout = 5000

\* the error classes the status mapping throws
TypedErrors == {"ValidationError", "ClientError", "HttpRequestError"}

\* C18: a call has an outcome exactly when it has settled and the outcome
\* never changes; it is resolved only after an ok response whose body
\* parsed, with that body; after a response that is not ok it is rejected,
\* with a typed error of the response's status when the error body parsed
\* and with the parse failure itself when it did not.
C18_OneOutcomeNoneSwallowed ==
    /\ [](\A c \in DOMAIN requests :
             LET r == requests[c]
             IN  /\ r.outcome # Nil <=> r.pc = "done"
                 /\ r.pc = "done" =>
                       /\ ~IsRejected(c) =>
                             /\ r.outcome[1].status = "resolved"
                             /\ r.response # Nil
                             /\ r.response[1].ok
                             /\ r.response[1].status \in 200..299
                             /\ r.responseBody # Nil
                             /\ r.outcome[1].value = r.responseBody[1]
                       /\ (r.response # Nil /\ r.response[1].status \notin 200..299) =>
                             /\ IsRejected(c)
                             /\ IF r.responseBody # Nil
                                THEN /\ ErrorOf(c).name \in TypedErrors
                                     /\ ErrorOf(c).statusCode = r.response[1].status
                                     /\ ErrorOf(c).responseBody = r.responseBody[1]
                                ELSE ErrorOf(c) = SyntaxError)
    /\ [][\A c \in DOMAIN requests :
             requests[c].outcome # Nil =>
                 c \in DOMAIN requests' /\ requests'[c].outcome = requests[c].outcome]_vars

\* a 422 whose body is no JSON rejected with the parse failure, beside a
\* call resolved with its parsed body
C18_Witness ==
    \E c, d \in DOMAIN requests :
        /\ Done(c)
        /\ requests[c].response # Nil
        /\ StatusOf(c) = 422
        /\ requests[c].responseBody = Nil
        /\ ErrorOf(c) = SyntaxError
        /\ Done(d)
        /\ requests[d].outcome = Resolved(Val([message_id |-> "m1", status |-> "queued"]))

\* C19: every verb call that has started eventually settles, whatever the
\* server does, given that an armed timer eventually fires.
C19_EveryCallSettles ==
    \A c \in CallIds : (c \in DOMAIN requests) ~> Done(c)

---------------------------------------------------------------------------
(* Emails sent through lettermint.email                                    *)

\* the JSON value and the headers a request transmits
SentBody(c) == requests[c].options.body[1].json
SentHeaders(c) == requests[c].options.headers

\* c is the send() made last
LatestSend(c) == \A d \in DOMAIN requests : requests[d].call.seq <= requests[c].call.seq

\* d is the send() that came next after c
NextSendAfter(c, d) ==
    /\ requests[c].call.seq < requests[d].call.seq
    /\ \A e \in DOMAIN requests :
          ~(requests[c].call.seq < requests[e].call.seq
              /\ requests[e].call.seq < requests[d].call.seq)

\* the email of send c was composed as the README composes one: its own
\* calls set its recipients, and every send before it had settled
ComposedInTurn(c) ==
    /\ Has(requests[c].call.chain.written, "to")
    /\ requests[c].call.underway = {}

\* C14: the request of every send() on lettermint.email that was composed
\* in turn holds a cc list, attachments and an Idempotency-Key header only
\* if the calls made for that email, those since the send() before it, set
\* them, and with the values those calls gave.
C14_EmailsAreIndependent ==
    \A c \in {d \in DOMAIN requests : ComposedInTurn(d)} :
        LET own == requests[c].call.chain
        IN  /\ Has(SentBody(c), "cc") =>
                  Has(own.written, "cc") /\ SentBody(c).cc = own.written.cc
            /\ Has(SentBody(c), "attachments") =>
                  /\ own.attached # <<>>
                  /\ SentBody(c).attachments = Descriptors(own.attached)
            /\ Has(SentHeaders(c), "Idempotency-Key") =>
                  /\ Has(own.written, "idempotencyKey")
                  /\ SentHeaders(c)["Idempotency-Key"] = own.written.idempotencyKey

\* C17: as long as no setter has been called since the last send(), the
\* builder is field for field, attachments and idempotency key included,
\* what it was when that send() was invoked, whether that send is under way,
\* has succeeded or has failed; and a send() that follows another with no
\* setter call in between issues the same body and the same headers.
C17_SendOnlyReads ==
    /\ \A c \in DOMAIN requests :
          LatestSend(c) /\ chain = NoChain => endpoints[email] = requests[c].call.builder
    /\ \A c, d \in DOMAIN requests :
          NextSendAfter(c, d) /\ requests[d].call.chain = NoChain =>
              /\ requests[d].options.body = requests[c].options.body
              /\ SentHeaders(d) = SentHeaders(c)

\* attach, idempotencyKey('k1'), a send() that failed, then send() again
C17_Witness ==
    \E c, d \in DOMAIN requests :
        /\ Done(c) /\ IsRejected(c)
        /\ NextSendAfter(c, d)
        /\ requests[d].call.chain = NoChain
        /\ Has(SentBody(d), "attachments")
        /\ Has(SentHeaders(d), "Idempotency-Key")
        /\ SentHeaders(d)["Idempotency-Key"] = "k1"
        /\ endpoints[email] = requests[c].call.builder

\* C20: the body of a send()'s request is the JSON text of the payload as
\* it was when send() was invoked, and its Idempotency-Key header is the key
\* held then (none when that key was unset or empty), whatever is called on
\* the builder afterwards.
C20_BodyIsSnapshot ==
    \A c \in DOMAIN requests :
        LET then == requests[c].call.builder
        IN  /\ requests[c].options.body = Val(Stringify(then.payload))
            /\ IF TruthyStr(then, "idempotencyKeyValue")
               THEN /\ Has(SentHeaders(c), "Idempotency-Key")
                    /\ SentHeaders(c)["Idempotency-Key"] = then.idempotencyKeyValue
               ELSE ~Has(SentHeaders(c), "Idempotency-Key")

\* send(), then attach and idempotencyKey('k2') while the request is under way
C20_Witness ==
    \E c \in DOMAIN requests :
        /\ requests[c].pc = "fetch"
        /\ chain.attached # <<>>
        /\ Has(chain.written, "idempotencyKey")
        /\ endpoints[email].idempotencyKeyValue = "k2"
        /\ Has(endpoints[email].payload, "attachments")
        /\ ~Has(SentBody(c), "attachments")
        /\ ~Has(SentHeaders(c), "Idempotency-Key")

=============================================================================
